---- MODULE Spec2Model ----
(***************************************************************************)
(* Model of MatrixSchemePermalinkConstructor, the matrix: URI permalink    *)
(* codec (src/src/components/views/voip/CallViewSidebar.tsx, lines         *)
(* 72-155), of the RoomSearch component                                    *)
(* (src/src/components/structures/RoomSearch.tsx) and of the listener      *)
(* bookkeeping of the VideoFeed component (src/unnamed/part_000).          *)
(* Each has its own specification: Spec, SpecSearch and SpecFeed.          *)
(*                                                                         *)
(* A JavaScript string is modelled as a sequence of one-character strings, *)
(* so "matrix:" is <<"m","a","t","r","i","x",":">>.  A call either returns *)
(* a value or throws; both outcomes are records:                           *)
(*    [type |-> "return", value |-> v]     (parts, boolean for the other   *)
(*                                          kinds of returned value)       *)
(*    [type |-> "throw",  message |-> m]                                   *)
(* where m is the text handed to `new Error(...)` in the source.           *)
(***************************************************************************)
EXTENDS Naturals, Sequences, FiniteSets

\* the codec: one recorded call and its outcome
VARIABLES call, ret

\* RoomSearch: the component, its input element, its filter and the store
VARIABLES mounted, isMinimized, stateQuery, pendingQuery, inputRef, searchFilter,
          roomListStore, immediate, lastEvent

\* VideoFeed: the component's phase, its feed prop and the feeds' listeners
VARIABLES feedPhase, propsFeed, listeners

codecVars == <<call, ret>>

searchVars == <<mounted, isMinimized, stateQuery, pendingQuery, inputRef, searchFilter,
                roomListStore, immediate, lastEvent>>

feedVars == <<feedPhase, propsFeed, listeners>>

vars == <<codecVars, searchVars, feedVars>>

-----------------------------------------------------------------------------
(* Bounds of the explored inputs.                                          *)

\* longest identifier body (the characters after the first one)
MaxIdLen == 1
\* longest server candidate list
MaxCands == 2
\* most tokens after the kind segment of a parsed input
MaxTail == 4
\* longest host string handed to isPermalinkHost
MaxHostLen == 2
\* longest query typed into the room search box
MaxQueryLen == 2
\* number of call feeds a VideoFeed may be given
NumFeeds == 6

-----------------------------------------------------------------------------
(* JavaScript values and string primitives.                                *)

\* the value of an array element that does not exist
undefined == <<"<undefined>">>

\* an absent (null) string argument
null == <<"<null>">>

\* an absent (null) array argument
nullArray == <<null>>

\* a returned string
Return(v) == [type |-> "return", value |-> v]

\* a returned PermalinkParts
ReturnParts(parts) == [type |-> "return", parts |-> parts]

\* a returned boolean
ReturnBoolean(b) == [type |-> "return", boolean |-> b]

Throw(m) == [type |-> "throw", message |-> m]

\* `${v}` : template literals print undefined as the text "undefined"
TemplateString(v) ==
    IF v = undefined THEN <<"u","n","d","e","f","i","n","e","d">> ELSE v

\* a prefix test that compares the lengths only
startsWith_lengthOnly(s, p) == Len(s) >= Len(p)

\* s.startsWith(p)
startsWith(s, p) == Len(s) >= Len(p) /\ SubSeq(s, 1, Len(p)) = p

\* s.slice(n) and s.substring(n), n counted from 0
slice(s, n) == IF n >= Len(s) THEN <<>> ELSE SubSeq(s, n + 1, Len(s))

\* s.split(sep) for a one-character separator: k separators give k+1 parts
RECURSIVE split(_, _)
split(s, sep) ==
    IF \A i \in 1..Len(s) : s[i] # sep
    THEN <<s>>
    ELSE LET i == CHOOSE k \in 1..Len(s) :
                      s[k] = sep /\ \A j \in 1..(k - 1) : s[j] # sep
         IN  <<SubSeq(s, 1, i - 1)>> \o split(slice(s, i), sep)

\* parts.join(sep)
RECURSIVE join(_, _)
join(parts, sep) ==
    IF Len(parts) = 0 THEN <<>>
    ELSE IF Len(parts) = 1 THEN parts[1]
    ELSE parts[1] \o sep \o join(Tail(parts), sep)

\* array[i], i counted from 0
At(array, i) == IF i < Len(array) THEN array[i + 1] ELSE undefined

ViaEq == <<"v","i","a","=">>

\* Length of the match of /&?via=/ starting at position q (from 1), 0 if none.
\* The optional & is greedy and is given up only when "via=" does not follow.
ViaMatchLen(s, q) ==
    IF s[q] = "&" /\ q + 4 <= Len(s) /\ SubSeq(s, q + 1, q + 4) = ViaEq THEN 5
    ELSE IF q + 3 <= Len(s) /\ SubSeq(s, q, q + 3) = ViaEq THEN 4
    ELSE 0

\* String.prototype.split with the regular expression /&?via=/g :
\* p is where the current fragment starts, q the position being tried.
RECURSIVE SplitViaFrom(_, _, _)
SplitViaFrom(s, p, q) ==
    IF q > Len(s) THEN <<slice(s, p - 1)>>
    ELSE LET m == ViaMatchLen(s, q)
         IN  IF m = 0 THEN SplitViaFrom(s, p, q + 1)
             ELSE <<SubSeq(s, p, q - 1)>> \o SplitViaFrom(s, q + m, q + m)

splitVia(query) == SplitViaFrom(query, 1, 1)

\* .filter((p) => !!p) : the empty string is the only falsy string
filterNonEmpty(parts) == SelectSeq(parts, LAMBDA p : p # <<>>)

\* const [first, second = ""] = s.split("?")
FirstOfSplit(s) == split(s, "?")[1]

SecondOfSplit(s) ==
    LET parts == split(s, "?") IN IF Len(parts) >= 2 THEN parts[2] ELSE <<>>

-----------------------------------------------------------------------------
(* encodeURIComponent, on the ASCII characters.                            *)

URIAlpha ==
    {"a","b","c","d","e","f","g","h","i","j","k","l","m",
     "n","o","p","q","r","s","t","u","v","w","x","y","z",
     "A","B","C","D","E","F","G","H","I","J","K","L","M",
     "N","O","P","Q","R","S","T","U","V","W","X","Y","Z"}

URIDigit == {"0","1","2","3","4","5","6","7","8","9"}

URIMark == {"-","_",".","!","~","*","'","(",")"}

URIUnreserved == URIAlpha \cup URIDigit \cup URIMark

\* the escape %XX of an ASCII character that is not unreserved
PercentEscape(c) ==
    CASE c = " " -> <<"%","2","0">>
      [] c = "#" -> <<"%","2","3">>
      [] c = "$" -> <<"%","2","4">>
      [] c = "%" -> <<"%","2","5">>
      [] c = "&" -> <<"%","2","6">>
      [] c = "+" -> <<"%","2","B">>
      [] c = "," -> <<"%","2","C">>
      [] c = "/" -> <<"%","2","F">>
      [] c = ":" -> <<"%","3","A">>
      [] c = ";" -> <<"%","3","B">>
      [] c = "=" -> <<"%","3","D">>
      [] c = "?" -> <<"%","3","F">>
      [] c = "@" -> <<"%","4","0">>

RECURSIVE encodeURIComponent(_)
encodeURIComponent(s) ==
    IF s = <<>> THEN <<>>
    ELSE (IF Head(s) \in URIUnreserved THEN <<Head(s)>> ELSE PercentEscape(Head(s)))
         \o encodeURIComponent(Tail(s))

-----------------------------------------------------------------------------
(* PermalinkParts, the decoded value.  The class is imported from          *)
(* ./PermalinkConstructor; it is a tagged union of the User, Room and      *)
(* Event variants, each with its identifiers and a server candidate list   *)
(* (empty for User).                                                       *)

PermalinkParts_forUser(userId) ==
    [variant |-> "User", userId |-> userId, viaServers |-> <<>>]

PermalinkParts_forRoom(roomIdOrAlias, viaServers) ==
    [variant |-> "Room", roomIdOrAlias |-> roomIdOrAlias, viaServers |-> viaServers]

PermalinkParts_forEvent(roomId, eventId, viaServers) ==
    [variant |-> "Event", roomIdOrAlias |-> roomId, eventId |-> eventId,
     viaServers |-> viaServers]

-----------------------------------------------------------------------------
(* MatrixSchemePermalinkConstructor.                                       *)

MatrixScheme == <<"m","a","t","r","i","x",":">>

CannotEncodeEntity == "Cannot encode entity: "

NotAPermalink == "Does not appear to be a permalink"

FaultyRoomPermalink == "Faulty room permalink"

UnknownEntityType == "Unknown entity type in permalink"

\* encodeEntity without the final throw: whatever is left counts as an event id
encodeEntity_defaultEvent(entity) ==
    IF entity # <<>> /\ entity[1] = "!"
    THEN Return(<<"r","o","o","m","i","d","/">> \o slice(entity, 1))
    ELSE IF entity # <<>> /\ entity[1] = "#"
    THEN Return(<<"r","/">> \o slice(entity, 1))
    ELSE IF entity # <<>> /\ entity[1] = "@"
    THEN Return(<<"u","/">> \o slice(entity, 1))
    ELSE Return(<<"e","/">> \o slice(entity, 1))

\* encodeEntity with the paths of room ids and room aliases exchanged
encodeEntity_swapped(entity) ==
    IF entity # <<>> /\ entity[1] = "!"
    THEN Return(<<"r","/">> \o slice(entity, 1))
    ELSE IF entity # <<>> /\ entity[1] = "#"
    THEN Return(<<"r","o","o","m","i","d","/">> \o slice(entity, 1))
    ELSE IF entity # <<>> /\ entity[1] = "@"
    THEN Return(<<"u","/">> \o slice(entity, 1))
    ELSE IF entity # <<>> /\ entity[1] = "$"
    THEN Return(<<"e","/">> \o slice(entity, 1))
    ELSE Throw(CannotEncodeEntity)

\* entity[0] of the empty string is undefined and equals no sigil
encodeEntity(entity) ==
    IF entity # <<>> /\ entity[1] = "!"
    THEN Return(<<"r","o","o","m","i","d","/">> \o slice(entity, 1))
    ELSE IF entity # <<>> /\ entity[1] = "#"
    THEN Return(<<"r","/">> \o slice(entity, 1))
    ELSE IF entity # <<>> /\ entity[1] = "@"
    THEN Return(<<"u","/">> \o slice(entity, 1))
    ELSE IF entity # <<>> /\ entity[1] = "$"
    THEN Return(<<"e","/">> \o slice(entity, 1))
    ELSE Throw(CannotEncodeEntity)

\* the candidates left as they are, not percent-encoded
mapEncode_raw(candidates) == candidates

\* candidates.map((c) => encodeURIComponent(c))
RECURSIVE mapEncode(_)
mapEncode(candidates) ==
    IF candidates = <<>> THEN <<>>
    ELSE <<encodeURIComponent(Head(candidates))>> \o mapEncode(Tail(candidates))

encodeServerCandidates(candidates) ==
    IF candidates = nullArray \/ Len(candidates) = 0 THEN <<>>
    ELSE <<"?">> \o ViaEq \o join(mapEncode(candidates), <<"&">> \o ViaEq)

\* The template literals are evaluated left to right; the first throw wins.
forEvent(roomId, eventId, serverCandidates) ==
    LET room == encodeEntity(roomId)
        event == encodeEntity(eventId)
    IN  IF room.type = "throw" THEN room
        ELSE IF event.type = "throw" THEN event
        ELSE Return(MatrixScheme \o room.value \o <<"/">> \o event.value
                    \o encodeServerCandidates(serverCandidates))

forRoom(roomIdOrAlias, serverCandidates) ==
    LET room == encodeEntity(roomIdOrAlias)
    IN  IF room.type = "throw" THEN room
        ELSE Return(MatrixScheme \o room.value
                    \o encodeServerCandidates(serverCandidates))

forUser(userId) ==
    LET user == encodeEntity(userId)
    IN  IF user.type = "throw" THEN user ELSE Return(MatrixScheme \o user.value)

forEntity(entityId) ==
    LET entity == encodeEntity(entityId)
    IN  IF entity.type = "throw" THEN entity ELSE Return(MatrixScheme \o entity.value)

\* a host predicate that refuses every host
isPermalinkHost_never(testHost) == FALSE

isPermalinkHost(testHost) == testHost = <<>>

\* query.split(/&?via=/g).filter((p) => !!p)
parseVia(query) == filterNonEmpty(splitVia(query))

\* parseRoom without the test of the third segment: any longer path is an event
parseRoom_anyThird(parts, sigil) ==
    LET entityNoSigil == At(parts, 1)
    IN  IF Len(parts) = 2
        THEN ReturnParts(PermalinkParts_forRoom(
                        <<sigil>> \o FirstOfSplit(entityNoSigil),
                        parseVia(SecondOfSplit(entityNoSigil))))
        ELSE IF Len(parts) > 2
        THEN LET eventIdAndQuery ==
                     IF Len(parts) > 3 THEN join(slice(parts, 3), <<"/">>) ELSE <<>>
             IN  ReturnParts(PermalinkParts_forEvent(
                            <<sigil>> \o TemplateString(entityNoSigil),
                            <<"$">> \o FirstOfSplit(eventIdAndQuery),
                            parseVia(SecondOfSplit(eventIdAndQuery))))
        ELSE Throw(FaultyRoomPermalink)

\* the branch of parsePermalink for identifier "r" or "roomid"
parseRoom(parts, sigil) ==
    LET entityNoSigil == At(parts, 1)
    IN  IF Len(parts) = 2
        THEN ReturnParts(PermalinkParts_forRoom(
                        <<sigil>> \o FirstOfSplit(entityNoSigil),
                        parseVia(SecondOfSplit(entityNoSigil))))
        ELSE IF At(parts, 2) = <<"e">>
        THEN LET eventIdAndQuery ==
                     IF Len(parts) > 3 THEN join(slice(parts, 3), <<"/">>) ELSE <<>>
             IN  ReturnParts(PermalinkParts_forEvent(
                            <<sigil>> \o TemplateString(entityNoSigil),
                            <<"$">> \o FirstOfSplit(eventIdAndQuery),
                            parseVia(SecondOfSplit(eventIdAndQuery))))
        ELSE Throw(FaultyRoomPermalink)

\* !fullUrl holds of the empty string (and of null)
parsePermalink(fullUrl) ==
    IF fullUrl = null \/ fullUrl = <<>> \/ ~startsWith(fullUrl, MatrixScheme)
    THEN Throw(NotAPermalink)
    ELSE LET parts == split(slice(fullUrl, Len(MatrixScheme)), "/")
             identifier == At(parts, 0)
             entityNoSigil == At(parts, 1)
         IN  IF identifier = <<"u">>
             THEN ReturnParts(PermalinkParts_forUser(<<"@">> \o TemplateString(entityNoSigil)))
             ELSE IF identifier = <<"r">> \/ identifier = <<"r","o","o","m","i","d">>
             THEN parseRoom(parts, IF identifier = <<"r">> THEN "#" ELSE "!")
             ELSE Throw(UnknownEntityType)

-----------------------------------------------------------------------------
(* The inputs explored.                                                    *)

\* all sequences over S of length at most n
SeqUpTo(S, n) == UNION {[1..k -> S] : k \in 0..n}

RECURSIVE concat(_)
concat(pieces) == IF pieces = <<>> THEN <<>> ELSE Head(pieces) \o concat(Tail(pieces))

\* first characters of an identifier: the four sigils and a letter
IdHeads == {"!", "#", "@", "$", "a"}

IdBodyChars == {"a", "/", "?"}

\* identifiers: the empty string, and a first character with a short body
Ids == {<<>>} \cup {<<h>> \o b : h \in IdHeads, b \in SeqUpTo(IdBodyChars, MaxIdLen)}

\* server names: plain, with a port, empty, and one that spells a query key
CandidatePool == {<<"a">>, <<"h",":","8">>, <<>>, ViaEq}

CandidateLists == SeqUpTo(CandidatePool, MaxCands)

Schemes == {MatrixScheme, <<>>, <<"h","t","t","p","s",":">>}

Kinds == {<<"u">>, <<"r">>, <<"r","o","o","m","i","d">>, <<"x">>, <<>>}

TailTokens == {<<"/">>, <<"e">>, <<"a">>, <<"?">>, <<"&">>, ViaEq}

ParseInputs ==
    {s \o k \o concat(t) : s \in Schemes, k \in Kinds, t \in SeqUpTo(TailTokens, MaxTail)}

Hosts == SeqUpTo({"m", ".", ":"}, MaxHostLen)

Builders == {"forEvent", "forRoom", "forUser", "forEntity"}

-----------------------------------------------------------------------------
(* The state machine.  The constructor keeps no state (lines 73-75), so    *)
(* every call stands alone: `call` records one call and `ret` its outcome. *)
(* parsePermalink is applied either to a fresh input or to the string a    *)
(* builder has just returned.                                              *)

NoCall == [op |-> "none"]

-----------------------------------------------------------------------------
(* RoomSearch after its constructor and first render.  state.query is ""   *)
(* (lines 59-62); the component starts expanded, so the input element      *)
(* exists (lines 178-216; SetMinimized leads to the minimized states); the *)
(* NameFilterCondition is fresh and is not in the room list store.         *)
(* state.focused plays no part in the filter and is left out.              *)

\* the characters typed: a space and a letter
QueryChars == {" ", "a"}

Queries == SeqUpTo(QueryChars, MaxQueryLen)

\* inputRef.current: the <input> element, or null when none is rendered
NoElement == [current |-> FALSE]

InputElement(value) == [current |-> TRUE, value |-> value]

\* no setState is waiting to be applied
NoPending == [set |-> FALSE]

\* new NameFilterCondition(): its search text starts empty
NameFilterCondition_new == [search |-> <<>>]

\* the room list store before any addFilter; lastCall and misordered record
\* the calls made on it for this component's filter
RoomListStore_instance == [filters |-> 0, lastCall |-> "none", misordered |-> FALSE]

SearchInit ==
    /\ mounted = TRUE
    /\ isMinimized = FALSE
    /\ stateQuery = <<>>
    /\ pendingQuery = NoPending
    /\ inputRef = InputElement(<<>>)
    /\ searchFilter = NameFilterCondition_new
    /\ roomListStore = RoomListStore_instance
    /\ immediate = FALSE
    /\ lastEvent = "constructor"

-----------------------------------------------------------------------------
(* VideoFeed after its constructor (lines 53-60 of part_000): not yet      *)
(* mounted, no listener added.  listeners[f] counts the registrations of   *)
(* this.onNewStream for CallFeedEvent.NewStream on feed f.  The feeds are  *)
(* interchangeable, so the component is constructed with the first one.    *)

Feeds == 1..NumFeeds

FeedInit ==
    /\ feedPhase = "constructed"
    /\ propsFeed = 1
    /\ listeners = [f \in Feeds |-> 0]

-----------------------------------------------------------------------------

CodecInit ==
    /\ call = NoCall
    /\ ret = [type |-> "none"]

Init ==
    /\ CodecInit
    /\ SearchInit
    /\ FeedInit

ForEvent ==
    /\ UNCHANGED <<searchVars, feedVars>>
    /\ call = NoCall
    /\ \E roomId \in Ids, eventId \in Ids, serverCandidates \in CandidateLists :
          /\ call' = [op |-> "forEvent", roomId |-> roomId, eventId |-> eventId,
                      serverCandidates |-> serverCandidates]
          /\ ret' = forEvent(roomId, eventId, serverCandidates)

ForRoom ==
    /\ UNCHANGED <<searchVars, feedVars>>
    /\ call = NoCall
    /\ \E roomIdOrAlias \in Ids, serverCandidates \in CandidateLists \cup {nullArray} :
          /\ call' = [op |-> "forRoom", roomIdOrAlias |-> roomIdOrAlias,
                      serverCandidates |-> serverCandidates]
          /\ ret' = forRoom(roomIdOrAlias, serverCandidates)

ForUser ==
    /\ UNCHANGED <<searchVars, feedVars>>
    /\ call = NoCall
    /\ \E userId \in Ids :
          /\ call' = [op |-> "forUser", userId |-> userId]
          /\ ret' = forUser(userId)

ForEntity ==
    /\ UNCHANGED <<searchVars, feedVars>>
    /\ call = NoCall
    /\ \E entityId \in Ids :
          /\ call' = [op |-> "forEntity", entityId |-> entityId]
          /\ ret' = forEntity(entityId)

IsPermalinkHost ==
    /\ UNCHANGED <<searchVars, feedVars>>
    /\ call = NoCall
    /\ \E testHost \in Hosts :
          /\ call' = [op |-> "isPermalinkHost", testHost |-> testHost]
          /\ ret' = ReturnBoolean(isPermalinkHost(testHost))

EncodeServerCandidates ==
    /\ UNCHANGED <<searchVars, feedVars>>
    /\ call = NoCall
    /\ \E candidates \in CandidateLists \cup {nullArray} :
          /\ call' = [op |-> "encodeServerCandidates", candidates |-> candidates]
          /\ ret' = Return(encodeServerCandidates(candidates))

ParsePermalink ==
    /\ UNCHANGED <<searchVars, feedVars>>
    /\ call = NoCall
    /\ \E fullUrl \in ParseInputs \cup {null} :
          /\ call' = [op |-> "parsePermalink", fullUrl |-> fullUrl, built |-> NoCall]
          /\ ret' = parsePermalink(fullUrl)

\* parsePermalink applied to the permalink a builder returned
ParseBuilt ==
    /\ UNCHANGED <<searchVars, feedVars>>
    /\ call.op \in Builders
    /\ ret.type = "return"
    /\ call' = [op |-> "parsePermalink", fullUrl |-> ret.value, built |-> call]
    /\ ret' = parsePermalink(ret.value)

Next ==
    \/ ForEvent
    \/ ForRoom
    \/ ForUser
    \/ ForEntity
    \/ IsPermalinkHost
    \/ EncodeServerCandidates
    \/ ParsePermalink
    \/ ParseBuilt

Spec == Init /\ [][Next]_vars

-----------------------------------------------------------------------------
(* RoomSearch (src/src/components/structures/RoomSearch.tsx).              *)
(*                                                                         *)
(* setState does not change this.state at once: the handler leaves the new *)
(* query in pendingQuery, and Commit is React applying it, rendering and   *)
(* calling componentDidUpdate.  lastEvent names the last handler that ran. *)

Whitespace == {" "}

\* String.prototype.trim
RECURSIVE trimStart(_)
trimStart(s) ==
    IF s # <<>> /\ Head(s) \in Whitespace THEN trimStart(Tail(s)) ELSE s

RECURSIVE trimEnd(_)
trimEnd(s) ==
    IF s # <<>> /\ s[Len(s)] \in Whitespace
    THEN trimEnd(SubSeq(s, 1, Len(s) - 1)) ELSE s

trim(s) == trimEnd(trimStart(s))

\* RoomListStore.instance.addFilter(filter)
RoomListStore_addFilter(store) ==
    [filters |-> store.filters + 1,
     lastCall |-> "addFilter",
     misordered |-> store.misordered \/ store.lastCall = "addFilter"]

\* RoomListStore.instance.removeFilter(filter): no effect on a filter not held
RoomListStore_removeFilter(store) ==
    [filters |-> IF store.filters > 0 THEN store.filters - 1 ELSE 0,
     lastCall |-> "removeFilter",
     misordered |-> store.misordered \/ store.lastCall # "addFilter"]

\* componentDidUpdate that takes any non-empty query for a search
componentDidUpdate_noTrim(prevQuery, curQuery, filter, store) ==
    IF prevQuery # curQuery
    THEN LET hadSearch == filter.search # <<>>
             haveSearch == curQuery # <<>>
             updated == [search |-> curQuery]
         IN  IF ~hadSearch /\ haveSearch
             THEN [searchFilter |-> updated,
                   roomListStore |-> RoomListStore_addFilter(store)]
             ELSE IF hadSearch /\ ~haveSearch
             THEN [searchFilter |-> updated,
                   roomListStore |-> RoomListStore_removeFilter(store)]
             ELSE [searchFilter |-> updated, roomListStore |-> store]
    ELSE [searchFilter |-> filter, roomListStore |-> store]

\* componentDidUpdate(prevProps, prevState): the filter and the store after it
componentDidUpdate(prevQuery, curQuery, filter, store) ==
    IF prevQuery # curQuery
    THEN LET hadSearch == trim(filter.search) # <<>>
             haveSearch == trim(curQuery) # <<>>
             updated == [search |-> curQuery]
         IN  IF ~hadSearch /\ haveSearch
             THEN [searchFilter |-> updated,
                   roomListStore |-> RoomListStore_addFilter(store)]
             ELSE IF hadSearch /\ ~haveSearch
             THEN [searchFilter |-> updated,
                   roomListStore |-> RoomListStore_removeFilter(store)]
             ELSE [searchFilter |-> updated, roomListStore |-> store]
    ELSE [searchFilter |-> filter, roomListStore |-> store]

\* render: the controlled <input value={this.state.query}>, absent when minimized
render(minimized, q) == IF minimized THEN NoElement ELSE InputElement(q)

\* this.setState({ query: q })
setState(q) == [set |-> TRUE, query |-> q]

\* clearInput, then onChange: the input element and the pending state after it
clearInput(ref) ==
    IF ~ref.current
    THEN [inputRef |-> ref, pendingQuery |-> pendingQuery]
    ELSE [inputRef |-> InputElement(<<>>), pendingQuery |-> setState(<<>>)]

\* React applies the pending state, renders and calls componentDidUpdate
Commit ==
    /\ UNCHANGED <<codecVars, feedVars>>
    /\ mounted
    /\ pendingQuery.set
    /\ stateQuery' = pendingQuery.query
    /\ pendingQuery' = NoPending
    /\ inputRef' = render(isMinimized, stateQuery')
    /\ LET after == componentDidUpdate(stateQuery, stateQuery', searchFilter,
                                       roomListStore)
       IN  /\ searchFilter' = after.searchFilter
           /\ roomListStore' = after.roomListStore
    /\ UNCHANGED <<mounted, isMinimized, immediate, lastEvent>>

\* the parent renders with the other isMinimized; pending state is applied too
SetMinimized ==
    /\ UNCHANGED <<codecVars, feedVars>>
    /\ mounted
    /\ isMinimized' = ~isMinimized
    /\ stateQuery' = IF pendingQuery.set THEN pendingQuery.query ELSE stateQuery
    /\ pendingQuery' = NoPending
    /\ inputRef' = render(isMinimized', stateQuery')
    /\ LET after == componentDidUpdate(stateQuery, stateQuery', searchFilter,
                                       roomListStore)
       IN  /\ searchFilter' = after.searchFilter
           /\ roomListStore' = after.roomListStore
    /\ UNCHANGED <<mounted, immediate, lastEvent>>

\* the user edits the text of the input element, which fires onChange
OnChange ==
    /\ UNCHANGED <<codecVars, feedVars>>
    /\ mounted
    /\ inputRef.current
    /\ \E value \in Queries :
          /\ inputRef' = InputElement(value)
          /\ pendingQuery' = setState(value)
    /\ lastEvent' = "onChange"
    /\ UNCHANGED <<mounted, isMinimized, stateQuery, searchFilter, roomListStore,
                   immediate>>

\* SpaceStore emits UPDATE_SELECTED_SPACE: the listener is clearInput
UpdateSelectedSpace ==
    /\ UNCHANGED <<codecVars, feedVars>>
    /\ mounted
    /\ LET after == clearInput(inputRef)
       IN  /\ inputRef' = after.inputRef
           /\ pendingQuery' = after.pendingQuery
    /\ lastEvent' = "UPDATE_SELECTED_SPACE"
    /\ UNCHANGED <<mounted, isMinimized, stateQuery, searchFilter, roomListStore,
                   immediate>>

\* onAction with Action.ViewRoom and clear_search
OnAction ==
    /\ UNCHANGED <<codecVars, feedVars>>
    /\ mounted
    /\ LET after == clearInput(inputRef)
       IN  /\ inputRef' = after.inputRef
           /\ pendingQuery' = after.pendingQuery
    /\ lastEvent' = "onAction"
    /\ UNCHANGED <<mounted, isMinimized, stateQuery, searchFilter, roomListStore,
                   immediate>>

\* a click on the clear button, rendered only when not minimized
OnClearClick ==
    /\ UNCHANGED <<codecVars, feedVars>>
    /\ mounted
    /\ ~isMinimized
    /\ LET after == clearInput(inputRef)
       IN  /\ inputRef' = after.inputRef
           /\ pendingQuery' = after.pendingQuery
    /\ lastEvent' = "clearInput"
    /\ UNCHANGED <<mounted, isMinimized, stateQuery, searchFilter, roomListStore,
                   immediate>>

\* onKeyDown in the input element: ClearSearch clears at once, SelectRoom
\* with onSelectRoom() true clears in a setImmediate callback
OnKeyDown ==
    /\ UNCHANGED <<codecVars, feedVars>>
    /\ mounted
    /\ inputRef.current
    /\ \E action \in {"ClearSearch", "SelectRoom"}, shouldClear \in BOOLEAN :
          IF action = "ClearSearch"
          THEN /\ LET after == clearInput(inputRef)
                  IN  /\ inputRef' = after.inputRef
                      /\ pendingQuery' = after.pendingQuery
               /\ UNCHANGED immediate
          ELSE /\ immediate' = (immediate \/ shouldClear)
               /\ UNCHANGED <<inputRef, pendingQuery>>
    /\ lastEvent' = "onKeyDown"
    /\ UNCHANGED <<mounted, isMinimized, stateQuery, searchFilter, roomListStore>>

\* the setImmediate callback of onKeyDown runs
Immediate ==
    /\ UNCHANGED <<codecVars, feedVars>>
    /\ immediate
    /\ immediate' = FALSE
    /\ LET after == clearInput(inputRef)
       IN  /\ inputRef' = after.inputRef
           /\ pendingQuery' = IF mounted THEN after.pendingQuery ELSE pendingQuery
    /\ lastEvent' = "setImmediate"
    /\ UNCHANGED <<mounted, isMinimized, stateQuery, searchFilter, roomListStore>>

AppendChar ==
    /\ UNCHANGED <<codecVars, feedVars>>
    /\ mounted
    /\ Len(stateQuery) < MaxQueryLen
    /\ \E char \in QueryChars : pendingQuery' = setState(stateQuery \o <<char>>)
    /\ lastEvent' = "appendChar"
    /\ UNCHANGED <<mounted, isMinimized, stateQuery, inputRef, searchFilter,
                   roomListStore, immediate>>

\* query.substring(0, query.length - 1): a negative end counts as 0
Backspace ==
    /\ UNCHANGED <<codecVars, feedVars>>
    /\ mounted
    /\ pendingQuery' = setState(IF stateQuery = <<>> THEN <<>>
                                ELSE SubSeq(stateQuery, 1, Len(stateQuery) - 1))
    /\ lastEvent' = "backspace"
    /\ UNCHANGED <<mounted, isMinimized, stateQuery, inputRef, searchFilter,
                   roomListStore, immediate>>

\* componentWillUnmount: the listeners go, React drops the ref and later setState
ComponentWillUnmount ==
    /\ UNCHANGED <<codecVars, feedVars>>
    /\ mounted
    /\ mounted' = FALSE
    /\ inputRef' = NoElement
    /\ pendingQuery' = NoPending
    /\ UNCHANGED <<isMinimized, stateQuery, searchFilter, roomListStore, immediate,
                   lastEvent>>

SearchNext ==
    \/ Commit
    \/ SetMinimized
    \/ OnChange
    \/ UpdateSelectedSpace
    \/ OnAction
    \/ OnClearClick
    \/ OnKeyDown
    \/ Immediate
    \/ AppendChar
    \/ Backspace
    \/ ComponentWillUnmount

SpecSearch == Init /\ [][SearchNext]_vars

-----------------------------------------------------------------------------
(* VideoFeed (src/unnamed/part_000): the NewStream listener.  The media    *)
(* element that playMedia and stopMedia drive holds no listener and is     *)
(* left out.                                                               *)

\* the null passed to updateFeed for "no feed"
nullFeed == 0

\* EventEmitter.addListener: one more registration, duplicates allowed
addListener(registered, feed) ==
    [registered EXCEPT ![feed] = @ + 1]

\* EventEmitter.removeListener: one registration less, if there is one
removeListener(registered, feed) ==
    [registered EXCEPT ![feed] = IF @ > 0 THEN @ - 1 ELSE 0]

\* updateFeed(oldFeed, newFeed) with this.props.feed = current: both the
\* removal and the addition are made on this.props.feed (lines 87 and 91)
updateFeed(oldFeed, newFeed, current, registered) ==
    IF oldFeed = newFeed THEN registered
    ELSE LET removed == IF oldFeed # nullFeed
                        THEN removeListener(registered, current)
                        ELSE registered
         IN  IF newFeed # nullFeed THEN addListener(removed, current) ELSE removed

ComponentDidMount ==
    /\ UNCHANGED <<codecVars, searchVars>>
    /\ feedPhase = "constructed"
    /\ feedPhase' = "mounted"
    /\ listeners' = updateFeed(nullFeed, propsFeed, propsFeed, listeners)
    /\ UNCHANGED propsFeed

\* the parent renders with a feed prop (the same or another one);
\* componentDidUpdate then sees the new props as this.props
ComponentDidUpdate ==
    /\ UNCHANGED <<codecVars, searchVars>>
    /\ feedPhase = "mounted"
    /\ \E feed \in Feeds :
          /\ propsFeed' = feed
          /\ listeners' = updateFeed(propsFeed, feed, feed, listeners)
    /\ UNCHANGED feedPhase

FeedComponentWillUnmount ==
    /\ UNCHANGED <<codecVars, searchVars>>
    /\ feedPhase = "mounted"
    /\ feedPhase' = "unmounted"
    /\ listeners' = updateFeed(propsFeed, nullFeed, propsFeed, listeners)
    /\ UNCHANGED propsFeed

FeedNext ==
    \/ ComponentDidMount
    \/ ComponentDidUpdate
    \/ FeedComponentWillUnmount

SpecFeed == Init /\ [][FeedNext]_vars

-----------------------------------------------------------------------------
(* Vocabulary of the properties.                                           *)

Sigils == {"!", "#", "@", "$"}

HasSigil(id) == id # <<>> /\ id[1] \in Sigils

IsParse == call.op = "parsePermalink"

Returned == ret.type = "return"

HasMatrixPrefix(s) ==
    /\ s # null
    /\ Len(s) >= 7
    /\ \A i \in 1..7 : s[i] = MatrixScheme[i]

FirstIndex(s, c) ==
    CHOOSE i \in 1..Len(s) : s[i] = c /\ \A j \in 1..(i - 1) : s[j] # c

Occurs(s, c) == \E i \in 1..Len(s) : s[i] = c

\* the text before the first c (all of s when c does not occur)
BeforeFirst(s, c) ==
    IF Occurs(s, c) THEN SubSeq(s, 1, FirstIndex(s, c) - 1) ELSE s

\* everything after the first c (empty when c does not occur)
AfterFirst(s, c) ==
    IF Occurs(s, c) THEN SubSeq(s, FirstIndex(s, c) + 1, Len(s)) ELSE <<>>

\* the input without its scheme prefix, and its '/'-separated segments
PathOf(fullUrl) == SubSeq(fullUrl, 8, Len(fullUrl))

SegmentsOf(fullUrl) == split(PathOf(fullUrl), "/")

KindOf(fullUrl) == BeforeFirst(PathOf(fullUrl), "/")

KindU == <<"u">>

KindR == <<"r">>

KindRoomId == <<"r","o","o","m","i","d">>

IsSubstring(b, s) ==
    \E i \in 0..(Len(s) - Len(b)) : \A k \in 1..Len(b) : s[i + k] = b[k]

\* number of positions of s at which the text t starts
CountOf(s, t) ==
    Cardinality({i \in 0..(Len(s) - Len(t)) : \A k \in 1..Len(t) : s[i + k] = t[k]})

-----------------------------------------------------------------------------
(* C1: round trip through a builder and parsePermalink.                    *)

\* C1: parsing the permalink that forUser, forRoom or forEvent built gives back
\* the User, Room or Event parts with the identifiers and the candidate list
\* the builder was given ('@' user ids, '!' or '#' rooms, '$' events).
C1_RoundTrip ==
    (IsParse /\ call.built.op # "none") =>
        LET b == call.built
        IN  /\ (b.op = "forUser" /\ b.userId[1] = "@")
                  => ret = ReturnParts(PermalinkParts_forUser(b.userId))
            /\ (/\ b.op = "forRoom"
                /\ b.roomIdOrAlias[1] \in {"!", "#"}
                /\ b.serverCandidates # nullArray)
                  => ret = ReturnParts(PermalinkParts_forRoom(b.roomIdOrAlias,
                                                         b.serverCandidates))
            /\ (/\ b.op = "forEvent"
                /\ b.roomId[1] \in {"!", "#"}
                /\ b.eventId[1] = "$")
                  => ret = ReturnParts(PermalinkParts_forEvent(b.roomId, b.eventId,
                                                          b.serverCandidates))

-----------------------------------------------------------------------------
(* C2: no partially populated result.                                      *)

\* C2: whenever parsePermalink returns, every identifier of the returned
\* variant is a sigil followed by a non-empty text that occurs in the input.
C2_NoPartialResult ==
    (IsParse /\ Returned) =>
        LET v == ret.parts
            Populated(id) == Len(id) >= 2 /\ IsSubstring(Tail(id), call.fullUrl)
        IN  CASE v.variant = "User" -> Populated(v.userId)
              [] v.variant = "Room" -> Populated(v.roomIdOrAlias)
              [] v.variant = "Event" ->
                     Populated(v.roomIdOrAlias) /\ Populated(v.eventId)

-----------------------------------------------------------------------------
(* C3: scheme check, then kind check.                                      *)

\* C3: parsePermalink throws "Does not appear to be a permalink" for every
\* input that does not start with "matrix:" (the empty string included), and
\* for an input that does start with it, throws "Unknown entity type in
\* permalink" exactly when the first segment is none of u, r, roomid.
C3_SchemeThenKind ==
    IsParse =>
        IF ~HasMatrixPrefix(call.fullUrl)
        THEN ret = Throw(NotAPermalink)
        ELSE (ret = Throw(UnknownEntityType))
                 <=> (KindOf(call.fullUrl) \notin {KindU, KindR, KindRoomId})

\* "matrix:x/a" has been parsed and was rejected for its kind
C3_Witness ==
    /\ IsParse
    /\ call.fullUrl = MatrixScheme \o <<"x","/","a">>
    /\ ret = Throw(UnknownEntityType)

-----------------------------------------------------------------------------
(* C4: dispatch on the path segments of a room permalink.                  *)

\* C4: for kind r or roomid, exactly two segments give a Room; a third
\* segment "e" gives an Event whose room id is the sigil plus the second
\* segment and whose event id is '$' plus the segments after "e" rejoined
\* with '/' up to the first '?'; everything else throws "Faulty room
\* permalink".
C4_RoomDispatch ==
    (/\ IsParse
     /\ HasMatrixPrefix(call.fullUrl)
     /\ KindOf(call.fullUrl) \in {KindR, KindRoomId}) =>
        LET parts == SegmentsOf(call.fullUrl)
            sigil == IF KindOf(call.fullUrl) = KindR THEN "#" ELSE "!"
        IN  IF Len(parts) = 2
            THEN Returned /\ ret.parts.variant = "Room"
            ELSE IF Len(parts) >= 3 /\ parts[3] = <<"e">>
            THEN /\ Returned
                 /\ ret.parts.variant = "Event"
                 /\ ret.parts.roomIdOrAlias = <<sigil>> \o parts[2]
                 /\ ret.parts.eventId =
                        <<"$">> \o BeforeFirst(
                            join(SubSeq(parts, 4, Len(parts)), <<"/">>), "?")
            ELSE ret = Throw(FaultyRoomPermalink)

\* an Event was parsed whose event id holds a '/' and whose input has a query
C4_Witness ==
    /\ IsParse
    /\ Returned
    /\ ret.parts.variant = "Event"
    /\ Occurs(ret.parts.eventId, "/")
    /\ Occurs(call.fullUrl, "?")
    /\ ret.parts.viaServers # <<>>

-----------------------------------------------------------------------------
(* C5: user permalinks.                                                    *)

\* C5: for every input "matrix:u/<rest>" parsePermalink returns the User
\* variant whose user id is '@' followed by the whole of <rest>, with an
\* empty candidate list.
C5_UserWholeRemainder ==
    (/\ IsParse
     /\ HasMatrixPrefix(call.fullUrl)
     /\ Len(call.fullUrl) >= 9
     /\ call.fullUrl[8] = "u"
     /\ call.fullUrl[9] = "/") =>
        ret = ReturnParts(PermalinkParts_forUser(
                         <<"@">> \o SubSeq(call.fullUrl, 10, Len(call.fullUrl))))

-----------------------------------------------------------------------------
(* C6: the query of a Room or Event permalink.                             *)

\* C6: in a Room or Event result the id is the text before the first '?' of
\* the tail, and the candidate list is the non-empty fragments of everything
\* after that first '?', split on /&?via=/, in order.
C6_WholeQuery ==
    (IsParse /\ Returned /\ ret.parts.variant \in {"Room", "Event"}) =>
        LET parts == SegmentsOf(call.fullUrl)
            isRoom == ret.parts.variant = "Room"
            tail == IF isRoom THEN parts[2]
                    ELSE join(SubSeq(parts, 4, Len(parts)), <<"/">>)
            id == IF isRoom THEN Tail(ret.parts.roomIdOrAlias)
                  ELSE Tail(ret.parts.eventId)
        IN  /\ id = BeforeFirst(tail, "?")
            /\ ret.parts.viaServers = filterNonEmpty(splitVia(AfterFirst(tail, "?")))

-----------------------------------------------------------------------------
(* C7: identifiers without a legal sigil.                                  *)

\* C7: a builder throws "Cannot encode entity" whenever one of its identifier
\* arguments is empty or starts with none of ! # @ $ ; it returns no string.
C7_SigilRequired ==
    /\ (call.op = "forEvent" /\ (~HasSigil(call.roomId) \/ ~HasSigil(call.eventId)))
          => ret = Throw(CannotEncodeEntity)
    /\ (call.op = "forRoom" /\ ~HasSigil(call.roomIdOrAlias))
          => ret = Throw(CannotEncodeEntity)
    /\ (call.op = "forUser" /\ ~HasSigil(call.userId))
          => ret = Throw(CannotEncodeEntity)
    /\ (call.op = "forEntity" /\ ~HasSigil(call.entityId))
          => ret = Throw(CannotEncodeEntity)

\* forEvent was given a legal room id and an event id without a sigil, and threw
C7_Witness ==
    /\ call.op = "forEvent"
    /\ HasSigil(call.roomId)
    /\ call.eventId # <<>>
    /\ ~HasSigil(call.eventId)
    /\ ret.type = "throw"

-----------------------------------------------------------------------------
(* C8: the query built from the server candidates.                         *)

\* via=<c1>&via=<c2>... with every candidate percent-encoded
RECURSIVE ViaEntries(_)
ViaEntries(candidates) ==
    ViaEq \o encodeURIComponent(Head(candidates))
          \o (IF Len(candidates) = 1 THEN <<>>
              ELSE <<"&">> \o ViaEntries(Tail(candidates)))

\* C8: encodeServerCandidates returns "" for an empty or absent list and
\* otherwise '?' followed by the via= entries of the percent-encoded
\* candidates joined by '&', one "via=" per candidate, in input order.
C8_ServerCandidates ==
    (call.op = "encodeServerCandidates") =>
        IF call.candidates = nullArray \/ call.candidates = <<>>
        THEN ret = Return(<<>>)
        ELSE /\ ret = Return(<<"?">> \o ViaEntries(call.candidates))
             /\ CountOf(ret.value, ViaEq) = Len(call.candidates)

\* two equal candidates, both spelling "via=", were encoded
C8_Witness ==
    /\ call.op = "encodeServerCandidates"
    /\ call.candidates = <<ViaEq, ViaEq>>
    /\ Returned
    /\ CountOf(ret.value, ViaEq) = 2

-----------------------------------------------------------------------------
(* C9: the text the builders return.                                       *)

SigilPath(c) ==
    CASE c = "!" -> <<"r","o","o","m","i","d","/">>
      [] c = "#" -> <<"r","/">>
      [] c = "@" -> <<"u","/">>
      [] c = "$" -> <<"e","/">>

EncodedEntity(id) == SigilPath(id[1]) \o Tail(id)

\* C9: with legal sigils, forEvent returns "matrix:" + the encoded room + "/"
\* + the encoded event + the candidate query, whichever sigil stands where;
\* forRoom returns "matrix:" + the encoded room + the candidate query;
\* forUser and forEntity return "matrix:" + the encoded id.
C9_BuilderOutput ==
    /\ (call.op = "forEvent" /\ HasSigil(call.roomId) /\ HasSigil(call.eventId))
          => ret = Return(MatrixScheme \o EncodedEntity(call.roomId) \o <<"/">>
                          \o EncodedEntity(call.eventId)
                          \o encodeServerCandidates(call.serverCandidates))
    /\ (call.op = "forRoom" /\ HasSigil(call.roomIdOrAlias))
          => ret = Return(MatrixScheme \o EncodedEntity(call.roomIdOrAlias)
                          \o encodeServerCandidates(call.serverCandidates))
    /\ (call.op = "forUser" /\ HasSigil(call.userId))
          => ret = Return(MatrixScheme \o EncodedEntity(call.userId))
    /\ (call.op = "forEntity" /\ HasSigil(call.entityId))
          => ret = Return(MatrixScheme \o EncodedEntity(call.entityId))

\* forEvent returned for an event id in the room position and a user id in
\* the event position, with candidates
C9_Witness ==
    /\ call.op = "forEvent"
    /\ call.roomId # <<>> /\ call.roomId[1] = "$"
    /\ call.eventId # <<>> /\ call.eventId[1] = "@"
    /\ call.serverCandidates # <<>>
    /\ Returned

-----------------------------------------------------------------------------
(* C10: isPermalinkHost.                                                   *)

\* C10: isPermalinkHost answers true for the empty host and false for every
\* other host.
C10_OnlyEmptyHost ==
    (call.op = "isPermalinkHost") => (ret.boolean <=> Len(call.testHost) = 0)

\* a non-empty host was tested and refused
C10_Witness ==
    /\ call.op = "isPermalinkHost"
    /\ Len(call.testHost) > 0
    /\ ret = ReturnBoolean(FALSE)

-----------------------------------------------------------------------------
(* C11: a change of the selected space clears the room search.             *)

\* C11: once UPDATE_SELECTED_SPACE has been emitted to a mounted RoomSearch
\* and the update it caused is complete, the query is "" and the name filter
\* is not in the room list store, minimized or not.
C11_SpaceChangeClears ==
    (mounted /\ lastEvent = "UPDATE_SELECTED_SPACE" /\ ~pendingQuery.set) =>
        /\ stateQuery = <<>>
        /\ roomListStore.filters = 0

-----------------------------------------------------------------------------
(* C12: the NewStream listener of VideoFeed.                               *)

\* C12: while the VideoFeed is mounted its NewStream listener is registered
\* once on the current props.feed and on no other feed (a replaced feed does
\* not keep it), and after unmount it is registered on no feed.
C12_ListenerOnCurrentFeedOnly ==
    /\ feedPhase = "mounted" =>
           \A f \in Feeds : listeners[f] = (IF f = propsFeed THEN 1 ELSE 0)
    /\ feedPhase = "unmounted" => \A f \in Feeds : listeners[f] = 0

-----------------------------------------------------------------------------
(* C13: registration of the name filter.                                   *)

\* some character of s is not whitespace
HasSearchText(s) == \E i \in 1..Len(s) : s[i] \notin Whitespace

\* C13: after every completed update the name filter is in the room list
\* store (once) exactly when the query is non-empty after trimming, and the
\* addFilter and removeFilter calls have alternated, addFilter first.
C13_FilterRegistration ==
    /\ ~pendingQuery.set =>
           /\ roomListStore.filters = (IF HasSearchText(stateQuery) THEN 1 ELSE 0)
    /\ ~roomListStore.misordered

\* the filter was added and then removed again by a query of one space
C13_Witness ==
    /\ ~pendingQuery.set
    /\ stateQuery = <<" ">>
    /\ roomListStore.lastCall = "removeFilter"
    /\ roomListStore.filters = 0

====
